---------------------------- MODULE Spec2Model ----------------------------
(***************************************************************************)
(* Model of the view pipeline of cmk/gui/views.py (datasource lookup,     *)
(* show_view, table join, sorting, row limit, rendering, effective         *)
(* sorters, command execution, reschedule), of OIDSpec in                  *)
(* cmk/utils/type_defs.py and of the MutexScanRegistry exercised by        *)
(* tests-py3/unit/cmk/base/test_snmp_utils.py.                             *)
(*                                                                         *)
(* Python strings whose content matters are sequences of one-character     *)
(* strings.  Each subsystem has its own specification (SpecOID, SpecScan,  *)
(* ...); the variables of the other subsystems stay at their idle values.  *)
(***************************************************************************)
EXTENDS Integers, Sequences, FiniteSets, TLC

VARIABLES
    \* ---- OIDSpec (cmk/utils/type_defs.py)
    oid_op,        \* "idle" | "init" | "add": the last operation performed
    oid_args,      \* the operands as handed to the operation
    oid_after,     \* the operands as they are after the operation
    oid_exc,       \* "none" | "TypeError" | "ValueError"
    oid_res,       \* the object produced, NoObject when the operation raised
    \* ---- MutexScanRegistry (cmk.base.snmp_utils, seen through its unit test)
    scan_specific, \* the registered specific scan functions, in registration order
    scan_fallbacks,\* the wrappers as_fallback returned: [fn, at]
    scan_last,     \* the last call on the registry and what it returned
    \* ---- the logged-in user and the configuration (cmk.gui.config)
    user_permissions,        \* the permissions config.user.may() grants
    config_soft_query_limit, \* config.soft_query_limit
    config_hard_query_limit, \* config.hard_query_limit
    \* ---- page_view: the row limit of the view
    req_limit,     \* request variable "limit": None when absent, else Some(text)
    limit_called,  \* get_limit has returned
    limit_ret,     \* what get_limit returned: None or Some(number)
    view_row_limit,\* View._row_limit
    \* ---- View.sorters
    view_spec_sorters, \* View.spec["sorters"]
    view_user_sorters, \* View._user_sorters: None or Some(list)
    view_pc,           \* "new" | "set" (the setter ran) | "read" (sorters was read)
    view_sorters_ret,  \* what the property View.sorters returned
    \* ---- _sort_data
    sort_rows,     \* the row list as handed to _sort_data
    sort_sorters,  \* the sorter entries handed to _sort_data
    sort_data,     \* the row list, sorted in place
    sort_done,     \* _sort_data has returned
    \* ---- do_actions
    html_vars,     \* the command variables set in the request
    confirm_answer,\* what html.confirm returns: "True", "False" (dialog shown) or "None"
    act_what,      \* the primary info of the datasource ("host", "service", ...)
    act_rows,      \* the rows the actions are to be performed on
    act_out,       \* what do_actions did and returned; ret "pending" before the call
    \* ---- PageRescheduleCheck
    resched_request, \* html.get_request(): site, host, service, wait_svc (None: absent)
    resched_now,     \* int(time.time())
    live_reply,      \* how the monitoring core answers: a failing call, else last_check
    resched_out,     \* what _do_reschedule did; result "pending" before the call
    \* ---- View.datasource
    ds_registry,   \* the names registered in data_source_registry
    ds_view_name,  \* View.name
    ds_spec,       \* View.spec["datasource"], a name given as its parts
    ds_out,        \* how the property access ended; result "pending" before it
    \* ---- _do_table_join
    join_master_rows, \* master_rows as handed to _do_table_join
    join_query_rows,  \* what the query of the joined table returns, in its order
    join_rows_after,  \* master_rows after the call
    join_done,        \* _do_table_join has returned
    \* ---- show_view
    show_in,       \* the view, the request and what the backend answers
    show_out,      \* what show_view did; ended "pending" before the call
    \* ---- GUIViewRenderer.render
    render_in,     \* the arguments, the view, the request and the display options
    render_out     \* what render did; state "pending" before the call

oidVars == <<oid_op, oid_args, oid_after, oid_exc, oid_res>>

scanVars == <<scan_specific, scan_fallbacks, scan_last>>

userVars == <<user_permissions>>

limitVars == <<config_soft_query_limit, config_hard_query_limit, req_limit,
               limit_called, limit_ret, view_row_limit>>

viewVars == <<view_spec_sorters, view_user_sorters, view_pc, view_sorters_ret>>

sortVars == <<sort_rows, sort_sorters, sort_data, sort_done>>

actVars == <<html_vars, confirm_answer, act_what, act_rows, act_out>>

reschedVars == <<resched_request, resched_now, live_reply, resched_out>>

dsVars == <<ds_registry, ds_view_name, ds_spec, ds_out>>

joinVars == <<join_master_rows, join_query_rows, join_rows_after, join_done>>

showVars == <<show_in, show_out>>

renderVars == <<render_in, render_out>>

laterVars == <<dsVars, joinVars, showVars, renderVars>>

vars == <<oidVars, scanVars, userVars, limitVars, viewVars, sortVars, actVars,
          reschedVars, laterVars>>

(***************************************************************************)
(* Bounds                                                                  *)
(***************************************************************************)
\* the depth of nested calls at which the interpreter gives up
RecursionLimit == 3

\* most master rows handed to _do_table_join
MaxMasterRows == 2

\* most rows the query of the joined table returns
MaxJoinRows == 3

\* most rows the query of the datasource table returns to show_view
MaxShowRows == 2

\* most rows handed to GUIViewRenderer.render
MaxRenderRows == 3

\* longest string handed to OIDSpec
MaxOidLen == 3
\* most scan functions registered in one registry
MaxScans == 3
\* most fallback wrappers taken from one registry
MaxFallbacks == 1
\* most sorters configured in a view spec
MaxSpecSorters == 1
\* most sorters the user asks for in the URL
MaxUserSorters == 2
\* most rows handed to _sort_data
MaxRows == 3
\* most sorter entries handed to _sort_data
MaxSortKeys == 2
\* most rows selected for a command
MaxActionRows == 2

(***************************************************************************)
(* Generic helpers                                                         *)
(***************************************************************************)
\* all sequences over S of length 0..n
SeqsUpTo(S, n) == UNION {[1..k -> S] : k \in 0..n}

\* Optional values: None, or a single value
None == <<>>

Some(x) == <<x>>

StartsWith(s, c) == Len(s) > 0 /\ s[1] = c

EndsWith(s, c) == Len(s) > 0 /\ s[Len(s)] = c

(***************************************************************************)
(* OIDSpec                                                                 *)
(***************************************************************************)
Digits == {"0", "1", "2", "3", "4", "5", "6", "7", "8", "9"}

\* class attribute OIDSpec.VALID_CHARACTERS
VALID_CHARACTERS == {"."} \cup Digits

\* the characters the model draws strings from: the separator, two digits
\* and one character that is not valid in an OID
OidAlphabet == {".", "1", "2", "x"}

OidStrings == SeqsUpTo(OidAlphabet, MaxOidLen)

\* OIDSpec and the subclasses that "signal caching or byte encoding"
OIDClasses == {"OIDSpec", "OIDCached", "OIDBytes"}

\* a Python value: its type and, for text-like values, its characters
PyValue(t, s) == [cls |-> t, value |-> s]

\* values that are not of type str
NonStrValues == {PyValue("int", <<>>), PyValue("NoneType", <<>>),
                 PyValue("unicode", <<".", "1">>)}

OidInitArgs == {PyValue("str", s) : s \in OidStrings} \cup NonStrValues

NoObject == PyValue("NoObject", <<>>)

\* validate without its last check: a trailing '.' is accepted
validate_trailing_dot(value) ==
    IF value.cls # "str" THEN "TypeError"
    ELSE IF Len(value.value) = 0 THEN "ValueError"
    ELSE LET invalid == SelectSeq(value.value, LAMBDA c : c \notin VALID_CHARACTERS)
         IN  IF Len(invalid) > 0 THEN "ValueError" ELSE "none"

\* OIDSpec.validate: the exception it raises, "none" when it returns
validate(value) ==
    IF value.cls # "str" THEN "TypeError"
    ELSE IF Len(value.value) = 0 THEN "ValueError"
    ELSE LET invalid == SelectSeq(value.value, LAMBDA c : c \notin VALID_CHARACTERS)
         IN  IF Len(invalid) > 0 THEN "ValueError"
             ELSE IF EndsWith(value.value, ".") THEN "ValueError"
             ELSE "none"

\* cls(value): OIDSpec.__init__ validates, then stores the value
OIDSpec__init__(cls, value) ==
    LET exc == validate(value)
    IN  [exc |-> exc,
         obj |-> IF exc = "none" THEN PyValue(cls, value.value) ELSE NoObject]

\* the OIDSpec objects that can exist: those a constructor call returned
OIDObjects ==
    {OIDSpec__init__(c, v).obj : c \in OIDClasses,
                            v \in {a \in OidInitArgs : validate(a) = "none"}}

\* right operands of + that are not OIDSpec instances
NonOIDOperands == {PyValue("str", <<"1">>), PyValue("int", <<>>)}

\* __add__ building the result with the class of the left operand
OIDSpec__add__left_class(self, right) ==
    IF right.cls \notin OIDClasses
    THEN [exc |-> "TypeError", obj |-> NoObject, self |-> self, right |-> right]
    ELSE IF ~StartsWith(self.value, ".") \/ StartsWith(right.value, ".")
    THEN [exc |-> "ValueError", obj |-> NoObject, self |-> self, right |-> right]
    ELSE LET made == OIDSpec__init__(self.cls,
                                PyValue("str", self.value \o <<".">> \o right.value))
         IN  [exc |-> made.exc, obj |-> made.obj, self |-> self, right |-> right]

\* OIDSpec.__add__(self, right): exception, result, and the operands afterwards
\* (the method assigns to neither)
OIDSpec__add__(self, right) ==
    IF right.cls \notin OIDClasses
    THEN [exc |-> "TypeError", obj |-> NoObject, self |-> self, right |-> right]
    ELSE IF ~StartsWith(self.value, ".") \/ StartsWith(right.value, ".")
    THEN [exc |-> "ValueError", obj |-> NoObject, self |-> self, right |-> right]
    ELSE LET made == OIDSpec__init__(right.cls,
                                PyValue("str", self.value \o <<".">> \o right.value))
         IN  [exc |-> made.exc, obj |-> made.obj, self |-> self, right |-> right]

OidIdle ==
    /\ oid_op = "idle"
    /\ oid_args = <<>>
    /\ oid_after = <<>>
    /\ oid_exc = "none"
    /\ oid_res = NoObject

\* x = cls(value)
OIDConstruct ==
    /\ oid_op = "idle"
    /\ \E cls \in OIDClasses, value \in OidInitArgs :
        LET r == OIDSpec__init__(cls, value)
        IN  /\ oid_op' = "init"
            /\ oid_args' = <<PyValue(cls, <<>>), value>>
            /\ oid_after' = <<PyValue(cls, <<>>), value>>
            /\ oid_exc' = r.exc
            /\ oid_res' = r.obj

\* x = left + right
OIDAdd ==
    /\ oid_op = "idle"
    /\ \E left \in OIDObjects, right \in OIDObjects \cup NonOIDOperands :
        LET r == OIDSpec__add__(left, right)
        IN  /\ oid_op' = "add"
            /\ oid_args' = <<left, right>>
            /\ oid_after' = <<r.self, r.right>>
            /\ oid_exc' = r.exc
            /\ oid_res' = r.obj

(***************************************************************************)
(* MutexScanRegistry                                                       *)
(***************************************************************************)
\* An oid function is represented by what it returns for ".O.I.D": oid_kea
\* returns "Kea"; the others return another name or the empty string.
OidFunctions == {"Kea", "Parrot", ""}

oid_kea == "Kea"

ScanFunctions == {"scan_kea", "scan_parrot", "scan_nothing"}

\* scan_function(oid) as a truth value: scan_kea is oid(".O.I.D") == "Kea",
\* scan_parrot is bool(oid(".O.I.D")), scan_nothing matches no device
ScanResult(fn, oid) ==
    CASE fn = "scan_kea" -> oid = "Kea"
      [] fn = "scan_parrot" -> oid # ""
      [] OTHER -> FALSE

\* _is_specific with the registry forgetting all but the first registration
_is_specific_first_only(specific, oid) ==
    Len(specific) > 0 /\ ScanResult(specific[1], oid)

\* MutexScanRegistry._is_specific: any(scan(oid) for scan in self._specific_scans)
_is_specific(specific, oid) ==
    \E i \in 1..Len(specific) : ScanResult(specific[i], oid)

\* the wrapper ignoring the registry
FallbackCall_unguarded(specific, fn, oid) == ScanResult(fn, oid)

\* the wrapper as_fallback returns: False when a specific scan matches
FallbackCall(specific, fn, oid) ==
    IF _is_specific(specific, oid) THEN FALSE ELSE ScanResult(fn, oid)

NoCall == [op |-> "new", fn |-> "None", oid |-> "None", ret_fn |-> "None", ret |-> FALSE]

ScanIdle ==
    /\ scan_specific = <<>>
    /\ scan_fallbacks = {}
    /\ scan_last = NoCall

\* scan_registry.register(scan_function)
register ==
    /\ Len(scan_specific) < MaxScans
    /\ \E fn \in ScanFunctions :
        /\ scan_specific' = Append(scan_specific, fn)
        /\ scan_last' = [NoCall EXCEPT !.op = "register", !.fn = fn, !.ret_fn = fn]
    /\ UNCHANGED scan_fallbacks

\* wrapper = scan_registry.as_fallback(scan_function)
as_fallback ==
    /\ Cardinality(scan_fallbacks) < MaxFallbacks
    /\ \E fn \in ScanFunctions :
        /\ scan_fallbacks' = scan_fallbacks \cup {[fn |-> fn, at |-> Len(scan_specific)]}
        /\ scan_last' = [NoCall EXCEPT !.op = "as_fallback", !.fn = fn]
    /\ UNCHANGED scan_specific

\* scan_registry._is_specific(oid)
IsSpecificCall ==
    /\ \E oid \in OidFunctions :
        scan_last' = [NoCall EXCEPT !.op = "is_specific", !.oid = oid,
                                    !.ret = _is_specific(scan_specific, oid)]
    /\ UNCHANGED <<scan_specific, scan_fallbacks>>

\* wrapper(oid), for a wrapper as_fallback returned earlier
CallFallback ==
    /\ \E w \in scan_fallbacks, oid \in OidFunctions :
        scan_last' = [NoCall EXCEPT !.op = "call_fallback", !.fn = w.fn, !.oid = oid,
                                    !.ret = FallbackCall(scan_specific, w.fn, oid)]
    /\ UNCHANGED <<scan_specific, scan_fallbacks>>

(***************************************************************************)
(* The user                                                                *)
(***************************************************************************)
\* config.user.may(permission)
may(permission) == permission \in user_permissions

UserIdle == user_permissions = {}

(***************************************************************************)
(* get_limit and the row limit of a view                                   *)
(***************************************************************************)
\* values of the request variable "limit"
LimitVars == {None, Some("soft"), Some("hard"), Some("none"), Some(""), Some("HARD")}

\* the limits an administrator configures (the defaults are 1000 and 5000)
QueryLimits == {1000, 5000}

LimitPermissions == {"general.ignore_soft_limit", "general.ignore_hard_limit"}

\* html.request.var(name, default) for the variable "limit"
request_var_limit(default) == IF req_limit = None THEN default ELSE req_limit[1]

\* get_limit lifting the limit for everybody who asks for it
get_limit_unchecked ==
    LET limitvar == request_var_limit("soft")
    IN  IF limitvar = "hard" /\ may("general.ignore_soft_limit")
        THEN Some(config_hard_query_limit)
        ELSE IF limitvar = "none"
        THEN None
        ELSE Some(config_soft_query_limit)

\* get_limit(): how many data rows may the user query
get_limit ==
    LET limitvar == request_var_limit("soft")
    IN  IF limitvar = "hard" /\ may("general.ignore_soft_limit")
        THEN Some(config_hard_query_limit)
        ELSE IF limitvar = "none" /\ may("general.ignore_hard_limit")
        THEN None
        ELSE Some(config_soft_query_limit)

\* View.__init__ sets _row_limit to None; nothing was requested yet
LimitIdle ==
    /\ config_soft_query_limit = 1000
    /\ config_hard_query_limit = 5000
    /\ req_limit = None
    /\ limit_called = FALSE
    /\ limit_ret = None
    /\ view_row_limit = None

LimitStart ==
    /\ config_soft_query_limit \in QueryLimits
    /\ config_hard_query_limit \in QueryLimits
    /\ req_limit \in LimitVars
    /\ limit_called = FALSE
    /\ limit_ret = None
    /\ view_row_limit = None

\* page_view: view.row_limit = get_limit()
PageViewRowLimit ==
    /\ ~limit_called
    /\ limit_called' = TRUE
    /\ limit_ret' = get_limit
    /\ view_row_limit' = get_limit
    /\ UNCHANGED <<config_soft_query_limit, config_hard_query_limit, req_limit,
                   user_permissions>>

(***************************************************************************)
(* View.sorters                                                            *)
(***************************************************************************)
\* sorter identifiers as they appear in a sorter spec; ':' separates the
\* name from the uuid of a derived sorter
SorterIdents == {<<"svcstate">>, <<"gone">>, <<"inv", ":", "u1", ":", "x">>}

\* sorter_registry: the names that are registered ("gone" was removed)
sorter_registry == {<<"svcstate">>, <<"inv">>}

\* the registered sorters that have the method derived_columns
DerivedSorters == {<<"inv">>}

\* a sorter spec: (sorter, negate, join_key)
SorterSpecs == [sorter : SorterIdents, negate : BOOLEAN, join_key : {None, Some("k")}]

\* position of the first ':' in s, 0 when there is none
FirstColon(s) ==
    IF \E i \in 1..Len(s) : s[i] = ":"
    THEN CHOOSE i \in 1..Len(s) : s[i] = ":" /\ \A k \in 1..(i - 1) : s[k] # ":"
    ELSE 0

\* sorter_name, uuid = entry.sorter.split(':', 1), uuid None without a ':'
SplitSorter(s) ==
    LET i == FirstColon(s)
    IN  IF i = 0
        THEN [sorter_name |-> s, uuid |-> None]
        ELSE [sorter_name |-> SubSeq(s, 1, i - 1),
              uuid |-> Some(SubSeq(s, i + 1, Len(s)))]

\* the loop of View._get_sorter_entries over sorter_list[n..]
RECURSIVE _get_sorter_entries_from(_, _)
_get_sorter_entries_from(sorter_list, n) ==
    IF n > Len(sorter_list) THEN <<>>
    ELSE LET entry == sorter_list[n]
             parts == SplitSorter(entry.sorter)
             rest == _get_sorter_entries_from(sorter_list, n + 1)
         IN  IF parts.sorter_name \notin sorter_registry
             THEN rest
             ELSE LET sorter == [name |-> parts.sorter_name,
                                 uuid |-> IF parts.sorter_name \in DerivedSorters
                                          THEN parts.uuid ELSE None]
                  IN  <<[sorter |-> sorter, negate |-> entry.negate,
                         join_key |-> entry.join_key]>> \o rest

\* View._get_sorter_entries(sorter_list)
_get_sorter_entries(sorter_list) == _get_sorter_entries_from(sorter_list, 1)

\* truth value of an Optional list: None and the empty list are false
Truthy(opt) == opt # None /\ Len(opt[1]) > 0

\* View.sorters appending the user's sorters to the configured ones
View_sorters_appended ==
    _get_sorter_entries(view_spec_sorters
                     \o (IF Truthy(view_user_sorters) THEN view_user_sorters[1] ELSE <<>>))

\* the property View.sorters
View_sorters ==
    _get_sorter_entries(IF Truthy(view_user_sorters)
                     THEN view_user_sorters[1] ELSE view_spec_sorters)

\* View.__init__: _user_sorters is None
ViewIdle ==
    /\ view_spec_sorters = <<>>
    /\ view_user_sorters = None
    /\ view_pc = "new"
    /\ view_sorters_ret = <<>>

ViewStart ==
    /\ view_spec_sorters \in SeqsUpTo(SorterSpecs, MaxSpecSorters)
    /\ view_user_sorters = None
    /\ view_pc = "new"
    /\ view_sorters_ret = <<>>

\* view.user_sorters = user_sorters (page_view passes get_user_sorters())
SetUserSorters ==
    /\ view_pc = "new"
    /\ view_user_sorters' \in
          {None} \cup {Some(l) : l \in SeqsUpTo(SorterSpecs, MaxUserSorters)}
    /\ view_pc' = "set"
    /\ UNCHANGED <<view_spec_sorters, view_sorters_ret>>

\* sorters = view.sorters
ReadSorters ==
    /\ view_pc \in {"new", "set"}
    /\ view_sorters_ret' = View_sorters
    /\ view_pc' = "read"
    /\ UNCHANGED <<view_spec_sorters, view_user_sorters>>

(***************************************************************************)
(* _sort_data                                                              *)
(***************************************************************************)
\* values of a sorted column
ColumnValues == {0, 1}

\* rows of the joined table: one column, "s"
JoinedRows == [s : ColumnValues]

\* row["JOIN"]: the joined rows by join key; a join key may be missing
JoinDicts == {<<>>} \cup {("k" :> r) : r \in JoinedRows}

\* rows of the master table: one column, "a", and the join information
Rows == [a : ColumnValues, JOIN : JoinDicts]

\* sorter entries: the sorter of column "a" on the master row, and the
\* sorter of column "s" on the row joined under key "k"
SortEntries ==
    [sorter : {"a"}, negate : BOOLEAN, join_key : {None}]
        \cup [sorter : {"s"}, negate : BOOLEAN, join_key : {Some("k")}]

\* dict.get(key): None when the key is missing
DictGet(d, key) == IF key \in DOMAIN d THEN Some(d[key]) ELSE None

\* Sorter.cmp of a column sorter: -1, 0 or 1 by the column's values
SorterCmp(sorter, r1, r2) ==
    IF r1[sorter] < r2[sorter] THEN -1
    ELSE IF r1[sorter] > r2[sorter] THEN 1
    ELSE 0

\* safe_compare: rows without the join column sort first
safe_compare(sorter, row1, row2) ==
    IF row1 = None /\ row2 = None THEN 0
    ELSE IF row1 = None THEN -1
    ELSE IF row2 = None THEN 1
    ELSE SorterCmp(sorter, row1[1], row2[1])

\* what one sorter entry says about e1 and e2, before negation
EntryCompare(entry, e1, e2) ==
    IF entry.join_key # None
    THEN safe_compare(entry.sorter, DictGet(e1.JOIN, entry.join_key[1]),
                      DictGet(e2.JOIN, entry.join_key[1]))
    ELSE SorterCmp(entry.sorter, e1, e2)

\* the loop of multisort from entry n on: the result and the number of the
\* last entry it consulted
RECURSIVE multisort_from(_, _, _, _)
multisort_from(sorters, e1, e2, n) ==
    IF n > Len(sorters) THEN [c |-> 0, consulted |-> Len(sorters)]
    ELSE LET entry == sorters[n]
             neg == IF entry.negate THEN -1 ELSE 1
             c == neg * EntryCompare(entry, e1, e2)
         IN  IF c # 0 THEN [c |-> c, consulted |-> n]
             ELSE multisort_from(sorters, e1, e2, n + 1)

\* multisort never negating
RECURSIVE multisort_from_plain(_, _, _, _)
multisort_from_plain(sorters, e1, e2, n) ==
    IF n > Len(sorters) THEN [c |-> 0, consulted |-> Len(sorters)]
    ELSE LET c == EntryCompare(sorters[n], e1, e2)
         IN  IF c # 0 THEN [c |-> c, consulted |-> n]
             ELSE multisort_from_plain(sorters, e1, e2, n + 1)

multisort_plain(sorters, e1, e2) == multisort_from_plain(sorters, e1, e2, 1)

\* multisort(e1, e2) of _sort_data
multisort(sorters, e1, e2) == multisort_from(sorters, e1, e2, 1)

\* x placed into the sorted list `done`: behind every element it is not
\* less than (the sort is stable)
RECURSIVE InsertSorted(_, _, _)
InsertSorted(done, x, sorters) ==
    IF done = <<>> THEN <<x>>
    ELSE LET last == done[Len(done)]
         IN  IF multisort(sorters, x, last).c < 0
             THEN Append(InsertSorted(SubSeq(done, 1, Len(done) - 1), x, sorters), last)
             ELSE Append(done, x)

\* data.sort(key=functools.cmp_to_key(multisort)) on data[1..n]
RECURSIVE ListSort(_, _, _)
ListSort(data, n, sorters) ==
    IF n = 0 THEN <<>>
    ELSE InsertSorted(ListSort(data, n - 1, sorters), data[n], sorters)

\* _sort_data(view, data, sorters): the list afterwards
_sort_data(data, sorters) ==
    IF sorters = <<>> THEN data ELSE ListSort(data, Len(data), sorters)

SortIdle ==
    /\ sort_rows = <<>>
    /\ sort_sorters = <<>>
    /\ sort_data = <<>>
    /\ sort_done = FALSE

SortStart ==
    /\ sort_rows \in SeqsUpTo(Rows, MaxRows)
    /\ sort_sorters \in SeqsUpTo(SortEntries, MaxSortKeys)
    /\ sort_data = sort_rows
    /\ sort_done = FALSE

\* _sort_data(view, rows, sorters)
SortData ==
    /\ ~sort_done
    /\ sort_data' = _sort_data(sort_data, sort_sorters)
    /\ sort_done' = TRUE
    /\ UNCHANGED <<sort_rows, sort_sorters>>

(***************************************************************************)
(* core_command and do_actions                                             *)
(***************************************************************************)
\* command_registry.values(), in registry order.  "single" answers with one
\* command, "list" with a list of commands that is empty for a row without
\* service, "by_row" (a legacy command function) answers only for rows that
\* have a service.  Each is triggered by its own request variable.
command_registry ==
    <<[name |-> "reschedule", permission |-> "action.reschedule", kind |-> "single"],
      [name |-> "downtimes", permission |-> "action.downtimes", kind |-> "list"],
      [name |-> "legacy", permission |-> "action.legacy", kind |-> "by_row"]>>

CommandNames == {command_registry[i].name : i \in 1..Len(command_registry)}

CommandPermissions == {command_registry[i].permission : i \in 1..Len(command_registry)}

\* the rows of a view: host name and id are always there, service
\* description and site may be missing
ActionRows ==
    {[host_name |-> "h", comment_id |-> "7"],
     [host_name |-> "h", comment_id |-> "7", service_description |-> "s"],
     [host_name |-> "h", comment_id |-> "7", site |-> "x"],
     [host_name |-> "h", comment_id |-> "7", service_description |-> "s", site |-> "x"]}

Whats == {"host", "service", "comment"}

\* "%s" % value for an Optional string
Str(opt) == IF opt = None THEN "None" ELSE opt[1]

\* one entry of a command list: a command, or a (site, command) tuple
PlainEntry(command) == [is_tuple |-> FALSE, site |-> None, command |-> command]

TupleEntry(site, command) == [is_tuple |-> TRUE, site |-> Some(site), command |-> command]

\* cmd.action(cmdtag, spec, row, row_nr, total_rows): None, or Some of the
\* commands (one command or a list) and the title
CommandAction(cmd, cmdtag, spec, row) ==
    LET line == [name |-> cmd.name, cmdtag |-> cmdtag, spec |-> spec]
        has_service == DictGet(row, "service_description") # None
    IN  IF cmd.name \notin html_vars THEN None
        ELSE CASE cmd.kind = "single" ->
                    Some([commands |-> [is_list |-> FALSE, value |-> PlainEntry(line)],
                          title |-> cmd.name])
               [] cmd.kind = "list" ->
                    Some([commands |->
                              [is_list |-> TRUE,
                               value |-> IF has_service
                                         THEN <<PlainEntry(line), TupleEntry("y", line)>>
                                         ELSE <<>>],
                          title |-> cmd.name])
               [] OTHER ->
                    IF has_service
                    THEN Some([commands |-> [is_list |-> FALSE, value |-> PlainEntry(line)],
                               title |-> cmd.name])
                    ELSE None

\* the loop of core_command over the registry from command n on; asked
\* lists the commands whose action() was called
RECURSIVE FindCommand(_, _, _, _, _)
FindCommand(n, cmdtag, spec, row, asked) ==
    IF n > Len(command_registry)
    THEN [found |-> FALSE, commands |-> [is_list |-> FALSE, value |-> <<>>],
          title |-> "", executor |-> "", asked |-> asked]
    ELSE LET cmd == command_registry[n]
         IN  IF may(cmd.permission)
             THEN LET result == CommandAction(cmd, cmdtag, spec, row)
                  IN  IF result # None
                      THEN [found |-> TRUE, commands |-> result[1].commands,
                            title |-> result[1].title, executor |-> cmd.name,
                            asked |-> Append(asked, cmd.name)]
                      ELSE FindCommand(n + 1, cmdtag, spec, row, Append(asked, cmd.name))
             ELSE FindCommand(n + 1, cmdtag, spec, row, asked)

\* what core_command hands to action(): the spec and the command tag
CommandTarget(what, row) ==
    LET host == DictGet(row, "host_name")
        descr == DictGet(row, "service_description")
    IN  IF what = "host" THEN [spec |-> Some(<<Str(host)>>), cmdtag |-> "HOST"]
        ELSE IF what = "service"
        THEN [spec |-> Some(<<Str(host), ";", Str(descr)>>), cmdtag |-> "SVC"]
        ELSE [spec |-> IF DictGet(row, what \o "_id") = None THEN None
                       ELSE Some(<<DictGet(row, what \o "_id")[1]>>),
              cmdtag |-> IF descr # None THEN "SVC" ELSE "HOST"]

\* core_command leaving a single command as it is
core_command_unwrapped(what, row) ==
    LET target == CommandTarget(what, row)
        hit == FindCommand(1, target.cmdtag, target.spec, row, <<>>)
    IN  [raised |-> hit.title = "", commands |-> hit.commands, title |-> hit.title,
         executor |-> hit.executor, asked |-> hit.asked]

\* core_command(what, row, row_nr, total_rows): raises MKUserError without a
\* title, else returns (commands, title, executor) with commands a list
core_command(what, row) ==
    LET target == CommandTarget(what, row)
        hit == FindCommand(1, target.cmdtag, target.spec, row, <<>>)
    IN  IF hit.title = ""
        THEN [raised |-> TRUE, commands |-> hit.commands, title |-> hit.title,
              executor |-> hit.executor, asked |-> hit.asked]
        ELSE [raised |-> FALSE,
              commands |-> IF hit.commands.is_list THEN hit.commands
                           ELSE [is_list |-> TRUE, value |-> <<hit.commands.value>>],
              title |-> hit.title, executor |-> hit.executor, asked |-> hit.asked]

\* the inner loop of do_actions over the commands of one row, from entry k
RECURSIVE RunCommands(_, _, _, _, _)
RunCommands(entries, k, row, executor, acc) ==
    IF k > Len(entries) THEN acc
    ELSE LET command_entry == entries[k]
             row_site == DictGet(row, "site")
         IN  IF <<row_site, command_entry>> \notin acc.already_executed
             THEN LET site == IF command_entry.is_tuple THEN command_entry.site
                              ELSE row_site
                      command == command_entry.command
                  IN  RunCommands(entries, k + 1, row, executor,
                          [acc EXCEPT
                              !.executed = Append(@, [executor |-> executor,
                                                      command |-> command,
                                                      site |-> site]),
                              !.already_executed = @ \cup {<<site, command_entry>>},
                              !.count = @ + 1,
                              !.command = Some(command)])
             ELSE RunCommands(entries, k + 1, row, executor, acc)

\* the loop of do_actions over the rows, from row nr (counted from 1) on
RECURSIVE RunRows(_, _, _, _)
RunRows(what, rows, nr, acc) ==
    IF nr > Len(rows) THEN [raised |-> FALSE, acc |-> acc]
    ELSE LET cc == core_command(what, rows[nr])
             asked == [acc EXCEPT !.asked = @ \o [i \in 1..Len(cc.asked) |->
                                                     <<cc.asked[i], nr - 1>>]]
         IN  IF cc.raised THEN [raised |-> TRUE, acc |-> asked]
             ELSE RunRows(what, rows, nr + 1,
                          RunCommands(cc.commands.value, 1, rows[nr], cc.executor, asked))

NothingDone ==
    [ret |-> "pending", error |-> "none", confirm_asked |-> FALSE, executed |-> <<>>,
     asked |-> <<>>, message |-> "none"]

\* html.confirm taken as confirmed unless it returned False
Confirmed_unless_false == confirm_answer # "False"

\* the truth value of html.confirm(...): True ("Yes"), False (the dialog
\* was shown) or None ("No", or a reload of the "Yes" page)
Confirmed == confirm_answer = "True"

\* do_actions(view, what, action_rows, backurl)
do_actions(what, action_rows) ==
    IF ~may("general.act")
    THEN [NothingDone EXCEPT !.ret = "False", !.error = "not_allowed"]
    ELSE IF action_rows = <<>>
    THEN [NothingDone EXCEPT !.ret = "False", !.error = "no_rows"]
    ELSE LET first == core_command(what, action_rows[1])
             first_asked == [i \in 1..Len(first.asked) |-> <<first.asked[i], 0>>]
         IN  IF first.raised
             THEN [NothingDone EXCEPT !.ret = "MKUserError", !.asked = first_asked]
             ELSE IF ~Confirmed
             THEN [NothingDone EXCEPT !.ret = "False", !.asked = first_asked,
                                      !.confirm_asked = TRUE]
             ELSE LET run == RunRows(what, action_rows, 1,
                                     [executed |-> <<>>, already_executed |-> {},
                                      count |-> 0, command |-> None,
                                      asked |-> first_asked])
                  IN  [ret |-> IF run.raised THEN "MKUserError" ELSE "True",
                       error |-> "none", confirm_asked |-> TRUE,
                       executed |-> run.acc.executed, asked |-> run.acc.asked,
                       message |-> IF run.raised THEN "none"
                                   ELSE IF run.acc.command # None THEN "sent"
                                   ELSE IF run.acc.count = 0 THEN "no_match"
                                   ELSE "none"]

ActIdle ==
    /\ html_vars = {}
    /\ confirm_answer = "False"
    /\ act_what = "host"
    /\ act_rows = <<>>
    /\ act_out = NothingDone

ActStart ==
    /\ html_vars \in SUBSET CommandNames
    /\ confirm_answer \in {"True", "False", "None"}
    /\ act_what \in Whats
    /\ act_rows \in SeqsUpTo(ActionRows, MaxActionRows)
    /\ act_out = NothingDone

\* has_done_actions = do_actions(view_spec, what, rows, backurl)
DoActionsCall ==
    /\ act_out.ret = "pending"
    /\ act_out' = do_actions(act_what, act_rows)
    /\ UNCHANGED <<html_vars, confirm_answer, act_what, act_rows, user_permissions>>

(***************************************************************************)
(* PageRescheduleCheck._do_reschedule                                      *)
(***************************************************************************)
\* livestatus.lqencode: the text without its newlines
lqencode(text) == SelectSeq(text, LAMBDA c : c # "\n")

\* config.reschedule_timeout, in seconds
reschedule_timeout == 10

\* what the request may hold under each key; None is a missing key
RequestSites == {None, Some(<<>>), Some(<<"site1">>)}

RequestHosts == {None, Some(<<>>), Some(<<"h">>), Some(<<"h", "\n", "x">>)}

RequestServices == {None, Some(<<>>), Some(<<"svc">>), Some(<<"Check_MK">>)}

RequestWaitServices == {None, Some(<<>>), Some(<<"w", "\n">>)}

Clock == {100, 200}

\* dict.get(key, default) on a request field
GetOr(field, default) == IF field = None THEN default ELSE field[1]

\* truth value of request.get(key): a missing key and "" are false
Given(field) == field # None /\ field # Some(<<>>)

NotRescheduled ==
    [result |-> "pending", exc |-> "none", live |-> <<>>, slept |-> FALSE]

\* one call on sites.live(): the command line "[now] name;text;now" for a
\* site, the list of sites to restrict queries to (none to lift it), or the
\* wait query
LiveCommand(name, now, spec, site) ==
    [call |-> "command", name |-> name, time |-> now, text |-> spec, site |-> site,
     host |-> <<>>, add_filter |-> <<>>, timeout |-> 0]

LiveOnlySites(sites) ==
    [call |-> "set_only_sites", name |-> "", time |-> 0, text |-> <<>>, site |-> sites,
     host |-> <<>>, add_filter |-> <<>>, timeout |-> 0]

LiveQuery(what, wait_spec, now, host, add_filter) ==
    [call |-> "query_row", name |-> "GET " \o what \o "s", time |-> now,
     text |-> wait_spec, site |-> <<>>, host |-> host, add_filter |-> add_filter,
     timeout |-> reschedule_timeout * 1000]

\* the part of _do_reschedule after its two checks
Reschedule(request, now) ==
    LET site == request.site[1]
        host == request.host[1]
        service == GetOr(request.service, <<>>)
        wait_svc == GetOr(request.wait_svc, <<>>)
        is_service == Len(service) > 0
        cmd == IF is_service THEN "SVC" ELSE "HOST"
        what == IF is_service THEN "service" ELSE "host"
        spec == IF is_service THEN host \o <<";">> \o service ELSE host
        wait_spec == IF is_service /\ Len(wait_svc) > 0
                     THEN host \o <<";">> \o wait_svc ELSE spec
        add_filter == IF ~is_service THEN <<>>
                      ELSE IF Len(wait_svc) > 0 THEN lqencode(wait_svc)
                      ELSE lqencode(service)
        command == LiveCommand("SCHEDULE_FORCED_" \o cmd \o "_CHECK", now,
                               lqencode(spec), site)
        query == LiveQuery(what, lqencode(wait_spec), now, lqencode(host), add_filter)
    IN  IF live_reply = "command_fails"
        THEN [NotRescheduled EXCEPT !.result = "raised", !.exc = "MKLivestatusException",
                                    !.live = <<command>>]
        ELSE IF live_reply = "query_fails"
        THEN [NotRescheduled EXCEPT
                 !.result = "raised", !.exc = "MKLivestatusException",
                 !.live = <<command, LiveOnlySites(<<site>>), query, LiveOnlySites(<<>>)>>]
        ELSE LET last_check == IF live_reply = "before" THEN now - 1
                               ELSE IF live_reply = "at" THEN now ELSE now + 1
             IN  [result |-> IF last_check < now THEN "TIMEOUT" ELSE "OK",
                  exc |-> "none",
                  live |-> <<command, LiveOnlySites(<<site>>), query, LiveOnlySites(<<>>)>>,
                  slept |-> last_check >= now /\ service = <<"Check_MK">>]

\* _do_reschedule checking the host name only
_do_reschedule_host_only(request, now) ==
    IF ~may("action.reschedule")
    THEN [NotRescheduled EXCEPT !.result = "raised", !.exc = "MKGeneralException"]
    ELSE IF ~Given(request.host) \/ request.site = None
    THEN [NotRescheduled EXCEPT !.result = "raised", !.exc = "MKGeneralException"]
    ELSE Reschedule(request, now)

\* PageRescheduleCheck._do_reschedule(request)
_do_reschedule(request, now) ==
    IF ~may("action.reschedule")
    THEN [NotRescheduled EXCEPT !.result = "raised", !.exc = "MKGeneralException"]
    ELSE IF ~Given(request.host) \/ ~Given(request.site)
    THEN [NotRescheduled EXCEPT !.result = "raised", !.exc = "MKGeneralException"]
    ELSE Reschedule(request, now)

ReschedIdle ==
    /\ resched_request = [site |-> None, host |-> None, service |-> None, wait_svc |-> None]
    /\ resched_now = 100
    /\ live_reply = "at"
    /\ resched_out = NotRescheduled

ReschedStart ==
    /\ resched_request \in [site : RequestSites, host : RequestHosts,
                            service : RequestServices, wait_svc : RequestWaitServices]
    /\ resched_now \in Clock
    /\ live_reply \in {"command_fails", "query_fails", "before", "at", "after"}
    /\ resched_out = NotRescheduled

\* PageRescheduleCheck.page
ReschedulePage ==
    /\ resched_out.result = "pending"
    /\ resched_out' = _do_reschedule(resched_request, resched_now)
    /\ UNCHANGED <<resched_request, resched_now, live_reply, user_permissions>>

(***************************************************************************)
(* _do_table_join                                                          *)
(***************************************************************************)
Sites == {"s1", "s2"}

\* values of the join master column (view.datasource.join[1], "host_name")
MasterColumnValues == {"h1", "h2"}

\* values of the join key column of the joined table (slave_ds.join_key,
\* "service_description"); "k" is the key the join sorter reads
JoinKeys == {"k", "m"}

\* master rows before the join
MasterRows == [site : Sites, host_name : MasterColumnValues]

\* rows of the joined table as the join query returns them; the value of a
\* further column, "s", plays no part in the join
JoinQueryRows ==
    [site : Sites, host_name : MasterColumnValues, service_description : JoinKeys,
     s : {1}]

\* d[key] = value on a dict
DictSet(d, key, value) ==
    [x \in (DOMAIN d) \cup {key} |-> IF x = key THEN value ELSE d[x]]

\* (row["site"], row[join_master_column])
MasterKey(row) == <<row.site, row.host_name>>

\* the first loop keeping what it already collected for a master key
RECURSIVE PerMasterEntry_keeping(_, _)
PerMasterEntry_keeping(rows, n) ==
    IF n = 0 THEN [current_key |-> None, per_master_entry |-> <<>>]
    ELSE LET before == PerMasterEntry_keeping(rows, n - 1)
             row == rows[n]
             master_key == MasterKey(row)
             per == IF master_key \notin DOMAIN before.per_master_entry
                    THEN DictSet(before.per_master_entry, master_key, <<>>)
                    ELSE before.per_master_entry
         IN  [current_key |-> Some(master_key),
              per_master_entry |->
                  DictSet(per, master_key,
                          DictSet(per[master_key], row.service_description, row))]

\* the first loop of _do_table_join over rows[1..n]: current_key and
\* per_master_entry; current_entry is the dict per_master_entry[current_key]
RECURSIVE PerMasterEntry(_, _)
PerMasterEntry(rows, n) ==
    IF n = 0 THEN [current_key |-> None, per_master_entry |-> <<>>]
    ELSE LET before == PerMasterEntry(rows, n - 1)
             row == rows[n]
             master_key == MasterKey(row)
             fresh == Some(master_key) # before.current_key
             per == IF fresh
                    THEN DictSet(before.per_master_entry, master_key, <<>>)
                    ELSE before.per_master_entry
         IN  [current_key |-> Some(master_key),
              per_master_entry |->
                  DictSet(per, master_key,
                          DictSet(per[master_key], row.service_description, row))]

\* per_master_entry.get(key, {})
JoinInfo(per_master_entry, key) ==
    IF key \in DOMAIN per_master_entry THEN per_master_entry[key] ELSE <<>>

\* _do_table_join(view, master_rows, master_filters, sorters): master_rows
\* afterwards, `rows` being what slave_ds.table.query returned
_do_table_join(master_rows, rows) ==
    LET per_master_entry == PerMasterEntry(rows, Len(rows)).per_master_entry
    IN  [i \in 1..Len(master_rows) |->
            DictSet(master_rows[i], "JOIN",
                    JoinInfo(per_master_entry, MasterKey(master_rows[i])))]

JoinIdle ==
    /\ join_master_rows = <<>>
    /\ join_query_rows = <<>>
    /\ join_rows_after = <<>>
    /\ join_done = FALSE

\* the joined table has one row per site, master column value and join key
\* (one service of a description per host and site)
UniqueJoinRows(rows) ==
    \A i, j \in 1..Len(rows) :
        (/\ MasterKey(rows[i]) = MasterKey(rows[j])
         /\ rows[i].service_description = rows[j].service_description) => i = j

JoinStart ==
    /\ join_master_rows \in SeqsUpTo(MasterRows, MaxMasterRows)
    /\ join_query_rows \in SeqsUpTo(JoinQueryRows, MaxJoinRows)
    /\ UniqueJoinRows(join_query_rows)
    /\ join_rows_after = join_master_rows
    /\ join_done = FALSE

\* _do_table_join(view, rows, filterheaders, sorters)
TableJoin ==
    /\ ~join_done
    /\ join_rows_after' = _do_table_join(join_master_rows, join_query_rows)
    /\ join_done' = TRUE
    /\ UNCHANGED <<join_master_rows, join_query_rows>>

(***************************************************************************)
(* show_view                                                               *)
(***************************************************************************)
\* rows of the datasource table as table.query returns them
TableRows == [site : {"s1"}, host_name : MasterColumnValues, a : ColumnValues]

\* html.request.var("filled_in"): None when the variable is absent
FilledInValues ==
    {None, Some("filter"), Some("actions"), Some("confirm"), Some("painteroptions"),
     Some("search")}

\* view.spec.get("mustsearch"): None when the view has no such option
MustSearchValues == {None, Some(TRUE), Some(FALSE)}

\* html.output_format: "html", a format with a layout of its own in the
\* layout registry, and one without
OutputFormats == {"html", "json", "bogus"}

ShowInputs ==
    [only_count : BOOLEAN,
     mustsearch : MustSearchValues,
     filled_in : FilledInValues,
     mode : {None, Some("availability")},
     aggr_in_infos : BOOLEAN,          \* "aggr" in view.datasource.infos
     timeline_aggr : BOOLEAN,          \* html.request.var("timeline_aggr") is set
     has_join_cells : BOOLEAN,         \* view.join_cells is not empty
     inventory_needed : BOOLEAN,       \* is_inventory_data_needed(...)
     sorters : {<<>>, <<[sorter |-> "a", negate |-> TRUE, join_key |-> None]>>},
     filter_drops : SUBSET {0},        \* values of "a" a non-Livestatus filter drops
     output_format : OutputFormats,
     table_rows : SeqsUpTo(TableRows, MaxShowRows)]  \* the answer of table.query

\* what the query of the joined table returns to the join of show_view
ShowJoinRows ==
    <<[site |-> "s1", host_name |-> "h1", service_description |-> "k", s |-> 1]>>

ShowPending ==
    [ended |-> "pending", calls |-> <<>>, rows |-> None, unfiltered |-> None,
     ret |-> None, render_args |-> None]

\* truthiness of view.spec.get("mustsearch")
MustSearch(spec_value) == spec_value = Some(TRUE)

\* the condition without the request variable: a mustsearch view never fetches
FetchCondition_no_filled_in(in) ==
    \/ in.only_count
    \/ ~MustSearch(in.mustsearch)

\* the condition under which show_view fetches data
FetchCondition(in) ==
    \/ in.only_count
    \/ ~MustSearch(in.mustsearch)
    \/ in.filled_in \in {Some("filter"), Some("actions"), Some("confirm"),
                         Some("painteroptions")}

\* the inventory loop: every row with a host_name gets "host_inventory"
LoadInventory(rows) ==
    [i \in 1..Len(rows) |-> DictSet(rows[i], "host_inventory", "tree")]

\* filter_.filter_table(rows) of the non-Livestatus filters
FilterTable(rows, drops) ==
    LET keep(row) == row.a \notin drops IN SelectSeq(rows, keep)

\* the "Fetch data" block of show_view: the calls made and the rows
FetchRows(in) ==
    IF FetchCondition(in)
    THEN LET sorters == IF in.only_count THEN <<>> ELSE in.sorters
             queried == in.table_rows
             joined == IF in.has_join_cells
                       THEN _do_table_join(queried, ShowJoinRows) ELSE queried
             loaded == IF in.inventory_needed THEN LoadInventory(joined) ELSE joined
         IN  [calls |-> <<"query">>
                        \o (IF in.has_join_cells THEN <<"join">> ELSE <<>>)
                        \o (IF in.inventory_needed THEN <<"inventory">> ELSE <<>>)
                        \o <<"sort">>,
              rows |-> _sort_data(loaded, sorters)]
    ELSE [calls |-> <<>>, rows |-> <<>>]

\* show_view(view, view_renderer, only_count)
show_view(in) ==
    IF in.mode = Some("availability") /\ (~in.aggr_in_infos \/ in.timeline_aggr)
    THEN \* fork to the availability page: only the filter headers are used
         [ShowPending EXCEPT !.ended = "availability_page",
                             !.calls = <<"render_availability_page">>]
    ELSE LET fetched == FetchRows(in)
             unfiltered_amount_of_rows == Len(fetched.rows)
             rows == FilterTable(fetched.rows, in.filter_drops)
             done == [ShowPending EXCEPT !.calls = fetched.calls,
                                         !.rows = Some(rows),
                                         !.unfiltered = Some(unfiltered_amount_of_rows)]
         IN  IF in.mode = Some("availability")
             THEN [done EXCEPT !.ended = "bi_availability",
                               !.calls = @ \o <<"render_bi_availability">>]
             ELSE IF in.only_count
             THEN [done EXCEPT !.ended = "count", !.ret = Some(Len(rows))]
             ELSE IF in.output_format = "bogus"
             THEN [done EXCEPT !.ended = "MKUserError"]
             ELSE [done EXCEPT !.ended = "rendered",
                               !.calls = @ \o <<"view_renderer.render">>,
                               !.render_args =
                                   Some([rows |-> rows,
                                         unfiltered_amount_of_rows |->
                                             unfiltered_amount_of_rows])]

ShowIdle ==
    /\ show_in = [only_count |-> FALSE, mustsearch |-> None, filled_in |-> None,
                  mode |-> None, aggr_in_infos |-> FALSE, timeline_aggr |-> FALSE,
                  has_join_cells |-> FALSE,
                  inventory_needed |-> FALSE, sorters |-> <<>>, filter_drops |-> {},
                  output_format |-> "html", table_rows |-> <<>>]
    /\ show_out = ShowPending

ShowStart ==
    /\ show_in \in ShowInputs
    /\ show_out = ShowPending

\* page_view / the sidebar snapin calling show_view
ShowView ==
    /\ show_out.ended = "pending"
    /\ show_out' = show_view(show_in)
    /\ UNCHANGED show_in

(***************************************************************************)
(* GUIViewRenderer.render                                                  *)
(***************************************************************************)
\* rows handed to the renderer, named by their row id
RenderRowIds == {1, 2}

\* View._row_limit as page_view sets it: None or a query limit
RowLimits == {None, Some(1), Some(2)}

\* how the call of do_actions ends
DoActionsOutcomes == {"True", "False", "MKUserError"}

RenderInputs ==
    [rows : SeqsUpTo(RenderRowIds, MaxRenderRows),
     extra_unfiltered : {0, 1},     \* rows the non-Livestatus filters removed
     ignore_limit : BOOLEAN,        \* view.datasource.ignore_limit
     _row_limit : RowLimits,        \* View._row_limit
     W : BOOLEAN,                   \* display_options.enabled(display_options.W)
     C : BOOLEAN,                   \* display_options.enabled(display_options.C)
     may_act : BOOLEAN,             \* config.user.may("general.act")
     has_command : BOOLEAN,         \* a permitted command exists for the table
     do_actions : BOOLEAN,          \* html.do_actions()
     transaction_valid : BOOLEAN,   \* html.transaction_valid()
     has_row_id : BOOLEAN,          \* html.request.has_var("_row_id")
     show_checkboxes : BOOLEAN,
     do_actions_result : DoActionsOutcomes]

\* html.request.var("_row_id") when it is set
WantedRowId == 1

\* config.user.get_rowselection(...)
RowSelection == {2}

RenderPending ==
    [state |-> "pending", has_done_actions |-> FALSE, action_rows |-> None,
     display_rows |-> <<>>, warned |-> FALSE, layout_rows |-> None]

\* the property View.row_limit
View_row_limit(ignore_limit, _row_limit) ==
    IF ignore_limit THEN None ELSE _row_limit

\* cmk.gui.view_utils.row_limit_exceeded(rows, limit)
row_limit_exceeded(rows, limit) ==
    limit # None /\ rows >= limit[1] + 1

\* should_show_command_form(datasource)
should_show_command_form(C, may_act, has_command) ==
    IF ~C THEN FALSE
    ELSE IF ~may_act THEN FALSE
    ELSE has_command

\* filter_by_row_id(view, rows): the first row of the wanted id
filter_by_row_id(rows) ==
    IF \E i \in 1..Len(rows) : rows[i] = WantedRowId THEN <<WantedRowId>> ELSE <<>>

\* filter_selected_rows(view, rows, selected_ids)
filter_selected_rows(rows, selected_ids) ==
    LET selected(row) == row \in selected_ids IN SelectSeq(rows, selected)

\* the statement keeping every row
DelFrom_keep_all(rows, n) == rows

\* del rows[n:]
DelFrom(rows, n) ==
    IF n < Len(rows) THEN SubSeq(rows, 1, n) ELSE rows

\* GUIViewRenderer.render(rows, ..., unfiltered_amount_of_rows)
render(in) ==
    LET unfiltered_amount_of_rows == Len(in.rows) + in.extra_unfiltered
        row_limit == View_row_limit(in.ignore_limit, in._row_limit)
        row_count == Len(in.rows)
        command_form == should_show_command_form(in.C, in.may_act, in.has_command)
        webservice == /\ ~command_form
                      /\ row_count > 0 /\ in.may_act
                      /\ in.do_actions /\ in.transaction_valid
        rows == IF command_form
                THEN IF in.has_row_id /\ in.do_actions
                     THEN filter_by_row_id(in.rows)
                     ELSE IF in.show_checkboxes /\ in.do_actions
                          THEN filter_selected_rows(in.rows, RowSelection)
                          ELSE in.rows
                ELSE IF webservice /\ in.has_row_id
                     THEN filter_by_row_id(in.rows)
                     ELSE in.rows
        called == \/ command_form /\ in.do_actions /\ in.transaction_valid
                  \/ webservice
        has_done_actions == /\ command_form /\ called
                            /\ in.do_actions_result = "True"
        exceeded == /\ in.W
                    /\ row_limit_exceeded(unfiltered_amount_of_rows, row_limit)
    IN  [state |-> "done",
         has_done_actions |-> has_done_actions,
         action_rows |-> IF called THEN Some(rows) ELSE None,
         display_rows |-> rows,
         warned |-> ~has_done_actions /\ exceeded,
         layout_rows |-> IF has_done_actions THEN None
                         ELSE IF exceeded THEN Some(DelFrom(rows, row_limit[1]))
                         ELSE Some(rows)]

RenderIdle ==
    /\ render_in = [rows |-> <<>>, extra_unfiltered |-> 0, ignore_limit |-> FALSE,
                    _row_limit |-> None, W |-> FALSE, C |-> FALSE, may_act |-> FALSE,
                    has_command |-> FALSE, do_actions |-> FALSE,
                    transaction_valid |-> FALSE, has_row_id |-> FALSE,
                    show_checkboxes |-> FALSE, do_actions_result |-> "False"]
    /\ render_out = RenderPending

RenderStart ==
    /\ render_in \in RenderInputs
    /\ render_out = RenderPending

\* view_renderer.render(rows, ...)
Render ==
    /\ render_out.state = "pending"
    /\ render_out' = render(render_in)
    /\ UNCHANGED render_in

(***************************************************************************)
(* View.datasource                                                         *)
(***************************************************************************)
\* data source names; a name is the sequence of its parts, so that
\* startswith("mkeventd_") can be decided
DataSourceNames == {<<"hosts">>, <<"services">>, <<"mkeventd_", "events">>,
                    <<"mkeventd_", "history">>, <<"x", "mkeventd_">>}

ViewNames == {"allhosts", "ec_events"}

\* how an access of the property ends: the object returned or the exception
DsReturn(name) ==
    [result |-> "returned", exc |-> "none", message |-> "none", ds |-> <<name>>]

DsRaise(exc, message) ==
    [result |-> "raised", exc |-> exc, message |-> message, ds |-> <<>>]

DsPending ==
    [result |-> "pending", exc |-> "none", message |-> "none", ds |-> <<>>]

\* View.datasource, entered at the given depth of nested calls.  The message
\* of the second MKUserError is formatted from self.datasource, which is this
\* property again: the nested access fails the same way, and the exception
\* that finally ends it is the interpreter's "maximum recursion depth
\* exceeded" (RuntimeError).
RECURSIVE View_datasource(_, _, _)
View_datasource(registry, name, depth) ==
    IF depth > RecursionLimit THEN DsRaise("RuntimeError", "maximum_recursion_depth")
    ELSE IF name \in registry THEN DsReturn(name)
    ELSE IF StartsWith(name, "mkeventd_")
         THEN DsRaise("MKUserError", "event_console_disabled")
         ELSE LET inner == View_datasource(registry, name, depth + 1)
              IN  IF inner.result = "raised" THEN inner
                  ELSE DsRaise("MKUserError", "datasource_does_not_exist")

DsIdle ==
    /\ ds_registry = {}
    /\ ds_view_name = "allhosts"
    /\ ds_spec = <<"hosts">>
    /\ ds_out = DsPending

DsStart ==
    /\ ds_registry \in SUBSET DataSourceNames
    /\ ds_view_name \in ViewNames
    /\ ds_spec \in DataSourceNames
    /\ ds_out = DsPending

\* view.datasource is read
ReadDatasource ==
    /\ ds_out.result = "pending"
    /\ ds_out' = View_datasource(ds_registry, ds_spec, 1)
    /\ UNCHANGED <<ds_registry, ds_view_name, ds_spec>>

LaterIdle == DsIdle /\ JoinIdle /\ ShowIdle /\ RenderIdle

earlierVars == <<oidVars, scanVars, userVars, limitVars, viewVars, sortVars, actVars,
                 reschedVars>>

EarlierIdle ==
    /\ OidIdle /\ ScanIdle /\ UserIdle /\ LimitIdle /\ ViewIdle /\ SortIdle
    /\ ActIdle /\ ReschedIdle

(***************************************************************************)
(* Specifications                                                          *)
(***************************************************************************)
InitOID ==
    /\ OidIdle /\ ScanIdle /\ UserIdle /\ LimitIdle /\ ViewIdle /\ SortIdle /\ ActIdle
    /\ ReschedIdle /\ LaterIdle

NextOID ==
    /\ OIDConstruct \/ OIDAdd
    /\ UNCHANGED <<scanVars, userVars, limitVars, viewVars, sortVars, actVars, reschedVars,
                     laterVars>>

SpecOID == InitOID /\ [][NextOID]_vars

InitScan ==
    /\ ScanIdle /\ OidIdle /\ UserIdle /\ LimitIdle /\ ViewIdle /\ SortIdle /\ ActIdle
    /\ ReschedIdle /\ LaterIdle

NextScan ==
    /\ register \/ as_fallback \/ IsSpecificCall \/ CallFallback
    /\ UNCHANGED <<oidVars, userVars, limitVars, viewVars, sortVars, actVars, reschedVars,
                     laterVars>>

SpecScan == InitScan /\ [][NextScan]_vars

InitLimit ==
    /\ LimitStart
    /\ user_permissions \in SUBSET LimitPermissions
    /\ OidIdle /\ ScanIdle /\ ViewIdle /\ SortIdle /\ ActIdle
    /\ ReschedIdle /\ LaterIdle

NextLimit ==
    PageViewRowLimit
    /\ UNCHANGED <<oidVars, scanVars, viewVars, sortVars, actVars, reschedVars,
                     laterVars>>

SpecLimit == InitLimit /\ [][NextLimit]_vars

InitView ==
    /\ ViewStart /\ OidIdle /\ ScanIdle /\ UserIdle /\ LimitIdle /\ SortIdle /\ ActIdle
    /\ ReschedIdle /\ LaterIdle

NextView ==
    /\ SetUserSorters \/ ReadSorters
    /\ UNCHANGED <<oidVars, scanVars, userVars, limitVars, sortVars, actVars, reschedVars,
                     laterVars>>

SpecView == InitView /\ [][NextView]_vars

InitSort ==
    /\ SortStart /\ OidIdle /\ ScanIdle /\ UserIdle /\ LimitIdle /\ ViewIdle /\ ActIdle
    /\ ReschedIdle /\ LaterIdle

NextSort ==
    SortData /\ UNCHANGED <<oidVars, scanVars, userVars, limitVars, viewVars, actVars, reschedVars,
                     laterVars>>

SpecSort == InitSort /\ [][NextSort]_vars

InitActions ==
    /\ ActStart
    /\ user_permissions \in SUBSET ({"general.act"} \cup CommandPermissions)
    /\ OidIdle /\ ScanIdle /\ LimitIdle /\ ViewIdle /\ SortIdle /\ ReschedIdle
    /\ LaterIdle

NextActions ==
    DoActionsCall
        /\ UNCHANGED <<oidVars, scanVars, limitVars, viewVars, sortVars, reschedVars,
                     laterVars>>

SpecActions == InitActions /\ [][NextActions]_vars

InitResched ==
    /\ ReschedStart
    /\ user_permissions \in SUBSET {"action.reschedule"}
    /\ OidIdle /\ ScanIdle /\ LimitIdle /\ ViewIdle /\ SortIdle /\ ActIdle
    /\ LaterIdle

NextResched ==
    ReschedulePage
        /\ UNCHANGED <<oidVars, scanVars, limitVars, viewVars, sortVars, actVars,
                     laterVars>>

SpecResched == InitResched /\ [][NextResched]_vars

InitDatasource == DsStart /\ EarlierIdle /\ JoinIdle /\ ShowIdle /\ RenderIdle

NextDatasource ==
    ReadDatasource /\ UNCHANGED <<earlierVars, joinVars, showVars, renderVars>>

SpecDatasource == InitDatasource /\ [][NextDatasource]_vars

InitJoin == JoinStart /\ EarlierIdle /\ DsIdle /\ ShowIdle /\ RenderIdle

NextJoin == TableJoin /\ UNCHANGED <<earlierVars, dsVars, showVars, renderVars>>

SpecJoin == InitJoin /\ [][NextJoin]_vars

InitShow == ShowStart /\ EarlierIdle /\ DsIdle /\ JoinIdle /\ RenderIdle

NextShow == ShowView /\ UNCHANGED <<earlierVars, dsVars, joinVars, renderVars>>

SpecShow == InitShow /\ [][NextShow]_vars

InitRender == RenderStart /\ EarlierIdle /\ DsIdle /\ JoinIdle /\ ShowIdle

NextRender == Render /\ UNCHANGED <<earlierVars, dsVars, joinVars, showVars>>

SpecRender == InitRender /\ [][NextRender]_vars

(***************************************************************************)
(* Claims about OIDSpec                                                    *)
(***************************************************************************)
\* a well-formed OID descriptor: non-empty, only digits and '.', no '.' at the end
WellFormedOid(s) ==
    /\ Len(s) > 0
    /\ \A i \in 1..Len(s) : s[i] \in VALID_CHARACTERS
    /\ s[Len(s)] # "."

\* C9: constructing an OIDSpec succeeds exactly for non-empty str values made
\* of digits and '.' that do not end with '.'; a non-str value raises
\* TypeError, every other rejected value raises ValueError, and a raising
\* constructor produces no object.
C9_ConstructionValidates ==
    oid_op = "init" =>
        LET cls == oid_args[1].cls
            v == oid_args[2]
        IN  /\ (oid_exc = "none") <=> (v.cls = "str" /\ WellFormedOid(v.value))
            /\ v.cls # "str" => oid_exc = "TypeError"
            /\ (v.cls = "str" /\ ~WellFormedOid(v.value)) => oid_exc = "ValueError"
            /\ oid_exc # "none" => oid_res = NoObject
            /\ oid_exc = "none" => oid_res = PyValue(cls, v.value)

\* a constructor call on digits and dots ending in '.' was rejected
C9_Witness ==
    /\ oid_op = "init"
    /\ oid_args[2].cls = "str"
    /\ Len(oid_args[2].value) > 1
    /\ \A i \in 1..Len(oid_args[2].value) : oid_args[2].value[i] \in VALID_CHARACTERS
    /\ EndsWith(oid_args[2].value, ".")
    /\ oid_exc = "ValueError"
    /\ oid_res = NoObject

\* C10: left + right is allowed only for a base (leading '.') on the left and
\* a column (no leading '.') on the right; the result has the class of right,
\* the value "<left>.<right>", is a valid OIDSpec and starts with '.'.
\* Otherwise ValueError, or TypeError when right is no OIDSpec.  The operands
\* are unchanged.
C10_AddBaseToColumn ==
    oid_op = "add" =>
        LET left == oid_args[1]
            right == oid_args[2]
            allowed == /\ right.cls \in OIDClasses
                       /\ StartsWith(left.value, ".")
                       /\ ~StartsWith(right.value, ".")
        IN  /\ right.cls \notin OIDClasses => oid_exc = "TypeError"
            /\ (right.cls \in OIDClasses /\ ~allowed) => oid_exc = "ValueError"
            /\ allowed =>
                  /\ oid_exc = "none"
                  /\ oid_res.cls = right.cls
                  /\ oid_res.value = left.value \o <<".">> \o right.value
                  /\ WellFormedOid(oid_res.value)
                  /\ StartsWith(oid_res.value, ".")
            /\ oid_exc # "none" => oid_res = NoObject
            /\ oid_after = oid_args

\* a base was added to a column of another class
C10_Witness ==
    /\ oid_op = "add"
    /\ oid_exc = "none"
    /\ oid_args[1].cls = "OIDSpec"
    /\ oid_args[2].cls = "OIDCached"
    /\ oid_res.cls = "OIDCached"
    /\ Len(oid_args[2].value) > 1

(***************************************************************************)
(* Claims about MutexScanRegistry                                          *)
(***************************************************************************)
\* C7: register returns the function it was given; a fresh registry reports
\* no oid function as specific; after register(f) every oid function on
\* which f returns true is reported as specific.
C7_RegisterMakesSpecific ==
    /\ scan_last.op = "new" =>
          \A oid \in OidFunctions : ~_is_specific(scan_specific, oid)
    /\ scan_last.op = "register" =>
          /\ scan_last.ret_fn = scan_last.fn
          /\ \A oid \in OidFunctions :
                ScanResult(scan_last.fn, oid) => _is_specific(scan_specific, oid)
    /\ scan_last.op = "is_specific" =>
          /\ scan_specific = <<>> => ~scan_last.ret
          /\ (\E i \in 1..Len(scan_specific) :
                 ScanResult(scan_specific[i], scan_last.oid)) => scan_last.ret

\* scan_kea was registered after another scan function, and oid_kea is specific
C7_Witness ==
    /\ scan_last.op = "register"
    /\ scan_last.fn = "scan_kea"
    /\ Len(scan_specific) > 1
    /\ scan_specific[1] = "scan_nothing"
    /\ _is_specific(scan_specific, oid_kea)

\* C8: a fallback wrapper returns the wrapped function's own result while no
\* registered specific scan function matches the oid function, and False
\* once one does, also when it was registered after the wrapping.
C8_FallbackYields ==
    scan_last.op = "call_fallback" =>
        LET matched == \E fn \in ScanFunctions :
                          /\ \E i \in 1..Len(scan_specific) : scan_specific[i] = fn
                          /\ ScanResult(fn, scan_last.oid)
        IN  /\ ~matched => scan_last.ret = ScanResult(scan_last.fn, scan_last.oid)
            /\ matched => scan_last.ret = FALSE

\* scan_parrot, wrapped while the registry was empty, is called with oid_kea
\* after scan_kea was registered, and yields False
C8_Witness ==
    /\ scan_last.op = "call_fallback"
    /\ scan_last.fn = "scan_parrot"
    /\ scan_last.oid = oid_kea
    /\ scan_fallbacks = {[fn |-> "scan_parrot", at |-> 0]}
    /\ scan_specific = <<"scan_kea">>
    /\ scan_last.ret = FALSE

(***************************************************************************)
(* Claims about get_limit                                                  *)
(***************************************************************************)
\* C2: get_limit returns the hard limit only for limit=hard with permission
\* general.ignore_soft_limit, None only for limit=none with permission
\* general.ignore_hard_limit, and the soft limit in every other case.
C2_LimitNeedsPermission ==
    limit_called =>
        LET hard == req_limit = Some("hard") /\ "general.ignore_soft_limit" \in user_permissions
            unlimited == req_limit = Some("none") /\ "general.ignore_hard_limit" \in user_permissions
        IN  /\ hard => limit_ret = Some(config_hard_query_limit)
            /\ unlimited => limit_ret = None
            /\ (~hard /\ ~unlimited) => limit_ret = Some(config_soft_query_limit)
            /\ limit_ret = None => unlimited
            /\ (limit_ret # None /\ limit_ret # Some(config_soft_query_limit)) => hard
            /\ view_row_limit = limit_ret

\* a user who may ignore the soft limit only asked for no limit and got the
\* soft limit
C2_Witness ==
    /\ limit_called
    /\ req_limit = Some("none")
    /\ user_permissions = {"general.ignore_soft_limit"}
    /\ config_soft_query_limit # config_hard_query_limit
    /\ limit_ret = Some(config_soft_query_limit)

(***************************************************************************)
(* Claims about View.sorters                                               *)
(***************************************************************************)
\* the sorter a spec entry names, without the uuid part
C3_BaseName(entry) ==
    IF \E i \in 1..Len(entry.sorter) : entry.sorter[i] = ":"
    THEN SubSeq(entry.sorter, 1,
                (CHOOSE i \in 1..Len(entry.sorter) :
                    /\ entry.sorter[i] = ":"
                    /\ \A k \in 1..(i - 1) : entry.sorter[k] # ":") - 1)
    ELSE entry.sorter

\* `effective` is derived from `source` alone: it lists, in order, the
\* entries of source whose sorter is registered, with their negate flag and
\* join key
C3_DerivedFrom(effective, source) ==
    LET kept == SelectSeq(source, LAMBDA e : C3_BaseName(e) \in sorter_registry)
    IN  /\ Len(effective) = Len(kept)
        /\ \A i \in 1..Len(kept) :
              /\ effective[i].sorter.name = C3_BaseName(kept[i])
              /\ effective[i].negate = kept[i].negate
              /\ effective[i].join_key = kept[i].join_key

\* C3: with non-empty user sorters the effective sorters are derived from
\* the user sorters only; with user sorters None or empty they are derived
\* from spec["sorters"].
C3_UserSortersOverride ==
    view_pc = "read" =>
        IF view_user_sorters # None /\ view_user_sorters # Some(<<>>)
        THEN C3_DerivedFrom(view_sorters_ret, view_user_sorters[1])
        ELSE C3_DerivedFrom(view_sorters_ret, view_spec_sorters)

\* the view spec configures a registered sorter, the user asked for another
\* registered one, and only the user's is effective
C3_Witness ==
    /\ view_pc = "read"
    /\ Len(view_spec_sorters) = 1
    /\ view_spec_sorters[1].sorter = <<"svcstate">>
    /\ view_user_sorters # None
    /\ Len(view_user_sorters[1]) = 2
    /\ view_user_sorters[1][1].sorter = <<"inv", ":", "u1", ":", "x">>
    /\ view_user_sorters[1][2].sorter = <<"gone">>
    /\ Len(view_sorters_ret) = 1
    /\ view_sorters_ret[1].sorter = [name |-> <<"inv">>, uuid |-> Some(<<"u1", ":", "x">>)]

(***************************************************************************)
(* Claims about _sort_data                                                 *)
(***************************************************************************)
\* the number of times row r occurs in list l
C1_Count(l, r) == Cardinality({i \in 1..Len(l) : l[i] = r})

\* entry k is the first that tells e1 and e2 apart
C1_Decides(k, e1, e2) ==
    /\ \A m \in 1..(k - 1) : EntryCompare(sort_sorters[m], e1, e2) = 0
    /\ EntryCompare(sort_sorters[k], e1, e2) # 0

\* C1: with a non-empty sorter list the rows end up ordered
\* lexicographically: of two rows, the one the first deciding sorter puts
\* first (inverted under negate) comes first, and multisort consults a
\* later sorter only when all earlier ones compare the rows as equal.
C1_LexicographicOrder ==
    (sort_done /\ sort_sorters # <<>>) =>
        /\ Len(sort_data) = Len(sort_rows)
        /\ \A r \in Rows : C1_Count(sort_data, r) = C1_Count(sort_rows, r)
        /\ \A i, j \in 1..Len(sort_data) : i < j =>
              \A k \in 1..Len(sort_sorters) :
                  C1_Decides(k, sort_data[i], sort_data[j]) =>
                      IF sort_sorters[k].negate
                      THEN EntryCompare(sort_sorters[k], sort_data[i], sort_data[j]) > 0
                      ELSE EntryCompare(sort_sorters[k], sort_data[i], sort_data[j]) < 0
        /\ \A i, j \in 1..Len(sort_data) :
              \A m \in 1..(multisort(sort_sorters, sort_data[i], sort_data[j]).consulted - 1) :
                  EntryCompare(sort_sorters[m], sort_data[i], sort_data[j]) = 0

\* three rows that arrived in the wrong order were sorted by a negated
\* first key and, among its ties, by the join column, a row without the
\* join column first
C1_Witness ==
    /\ sort_done
    /\ sort_sorters = <<[sorter |-> "a", negate |-> TRUE, join_key |-> None],
                        [sorter |-> "s", negate |-> FALSE, join_key |-> Some("k")]>>
    /\ sort_rows = <<[a |-> 1, JOIN |-> ("k" :> [s |-> 0])],
                     [a |-> 0, JOIN |-> <<>>],
                     [a |-> 1, JOIN |-> <<>>]>>
    /\ sort_data = <<[a |-> 1, JOIN |-> <<>>],
                     [a |-> 1, JOIN |-> ("k" :> [s |-> 0])],
                     [a |-> 0, JOIN |-> <<>>]>>

(***************************************************************************)
(* Claims about do_actions and core_command                                *)
(***************************************************************************)
\* C4: do_actions returns False and calls no executor when the user lacks
\* general.act, when there are no action rows, or when html.confirm does not
\* confirm; it returns True only when all three checks passed.
C4_ActionsNeedAllChecks ==
    act_out.ret # "pending" =>
        /\ "general.act" \notin user_permissions =>
              (act_out.ret = "False" /\ act_out.executed = <<>> /\ act_out.asked = <<>>)
        /\ act_rows = <<>> => (act_out.ret = "False" /\ act_out.executed = <<>>)
        /\ confirm_answer # "True" => (act_out.ret # "True" /\ act_out.executed = <<>>)
        /\ (act_out.confirm_asked /\ confirm_answer # "True") => act_out.ret = "False"
        /\ act_out.ret = "False" => act_out.executed = <<>>
        /\ act_out.ret = "True" =>
              /\ "general.act" \in user_permissions
              /\ act_rows # <<>>
              /\ act_out.confirm_asked
              /\ confirm_answer = "True"

\* a permitted user selected two rows and a command, and answered "No" in
\* the dialog: nothing was executed
C4_Witness ==
    /\ act_out.ret = "False"
    /\ "general.act" \in user_permissions
    /\ Len(act_rows) = 2
    /\ act_out.confirm_asked
    /\ confirm_answer = "None"
    /\ act_out.asked # <<>>
    /\ act_out.executed = <<>>

\* the commands of the registry the user may use, in registry order
C5_Permitted ==
    SelectSeq(command_registry, LAMBDA cmd : cmd.permission \in user_permissions)

\* command number n of the permitted ones answers for the row
C5_Answers(n, row) ==
    LET target == CommandTarget(act_what, row)
    IN  CommandAction(C5_Permitted[n], target.cmdtag, target.spec, row) # None

\* what C5 says about core_command alone: it asks the permitted commands in
\* registry order up to the first that answers, raises when none answers,
\* and returns the commands as a list
C5_CoreCommandSelects ==
    \A nr \in 1..Len(act_rows) :
        LET row == act_rows[nr]
            cc == core_command(act_what, row)
            answering == {n \in 1..Len(C5_Permitted) : C5_Answers(n, row)}
        IN  /\ cc.raised <=> answering = {}
            /\ \A i \in 1..Len(cc.asked) : cc.asked[i] = C5_Permitted[i].name
            /\ cc.raised => Len(cc.asked) = Len(C5_Permitted)
            /\ ~cc.raised =>
                  /\ Len(cc.asked) \in answering
                  /\ \A n \in answering : Len(cc.asked) <= n
                  /\ cc.executor = C5_Permitted[Len(cc.asked)].name
                  /\ cc.title # ""
                  /\ cc.commands.is_list

\* C5 as claimed: core_command selects the first permitted command that
\* answers and raises MKUserError when none does, and inside do_actions that
\* error comes before the confirmation and before any executor call.
C5_ErrorBeforeConfirmation ==
    act_out.ret # "pending" =>
        /\ C5_CoreCommandSelects
        /\ act_out.ret = "MKUserError" =>
              (~act_out.confirm_asked /\ act_out.executed = <<>>)

\* C5 as amended: the error comes before the confirmation and before any
\* executor call when it is the first row that no command answers for; when
\* it is a later row, it comes after the confirmation and after the
\* executor calls for the rows before it.
C5_ErrorBeforeConfirmationForFirstRow ==
    act_out.ret # "pending" =>
        /\ C5_CoreCommandSelects
        /\ ("general.act" \in user_permissions /\ act_rows # <<>>
                /\ core_command(act_what, act_rows[1]).raised) =>
              /\ act_out.ret = "MKUserError"
              /\ ~act_out.confirm_asked
              /\ act_out.executed = <<>>
        /\ (act_out.ret = "MKUserError" /\ ~core_command(act_what, act_rows[1]).raised) =>
              /\ act_out.confirm_asked
              /\ confirm_answer = "True"
              /\ \E nr \in 2..Len(act_rows) :
                    /\ core_command(act_what, act_rows[nr]).raised
                    /\ \A before \in 1..(nr - 1) :
                          ~core_command(act_what, act_rows[before]).raised

\* no command answered for the first row: the permitted ones were asked, the
\* others were not, and the error came before the dialog
C5_Witness ==
    /\ act_out.ret = "MKUserError"
    /\ ~act_out.confirm_asked
    /\ act_out.executed = <<>>
    /\ user_permissions = {"general.act", "action.downtimes", "action.legacy"}
    /\ html_vars = {"reschedule", "legacy"}
    /\ act_out.asked = <<<<"downtimes", 0>>, <<"legacy", 0>>>>

(***************************************************************************)
(* Claims about PageRescheduleCheck                                        *)
(***************************************************************************)
\* C6: _do_reschedule raises MKGeneralException and sends nothing to the
\* core when the user lacks action.reschedule or when host or site is
\* missing or empty; otherwise it sends exactly one forced check command,
\* for the host without a service and for the service with one, to the
\* requested site, before the wait query.
C6_RescheduleChecksFirst ==
    resched_out.result # "pending" =>
        LET live == resched_out.live
            refused == \/ "action.reschedule" \notin user_permissions
                       \/ resched_request.host \in {None, Some(<<>>)}
                       \/ resched_request.site \in {None, Some(<<>>)}
            with_service == resched_request.service \notin {None, Some(<<>>)}
            commands == {i \in 1..Len(live) : live[i].call = "command"}
        IN  /\ refused => (resched_out.exc = "MKGeneralException" /\ live = <<>>)
            /\ ~refused =>
                  /\ resched_out.exc # "MKGeneralException"
                  /\ commands = {1}
                  /\ live[1].site = resched_request.site[1]
                  /\ live[1].name = IF with_service THEN "SCHEDULE_FORCED_SVC_CHECK"
                                    ELSE "SCHEDULE_FORCED_HOST_CHECK"
                  /\ \A i \in 1..Len(live) : live[i].call = "query_row" => i > 1

\* a service check was forced on site1 and then waited for
C6_Witness ==
    /\ resched_out.result = "OK"
    /\ resched_request.service = Some(<<"svc">>)
    /\ resched_request.host = Some(<<"h", "\n", "x">>)
    /\ Len(resched_out.live) = 4
    /\ resched_out.live[1].call = "command"
    /\ resched_out.live[1].name = "SCHEDULE_FORCED_SVC_CHECK"
    /\ resched_out.live[1].text = <<"h", "x", ";", "svc">>
    /\ resched_out.live[1].site = <<"site1">>
    /\ resched_out.live[3].call = "query_row"

(***************************************************************************)
(* Claims about View.datasource                                            *)
(***************************************************************************)
\* C11: reading View.datasource when spec["datasource"] is not in the data
\* source registry ends with MKUserError and never with another error: with
\* the Event Console message when the name starts with "mkeventd_", and
\* otherwise with the message that the datasource does not exist.
C11_UnknownDatasourceRaisesMKUserError ==
    (ds_out.result # "pending" /\ ds_spec \notin ds_registry) =>
        /\ ds_out.result = "raised"
        /\ ds_out.exc = "MKUserError"
        /\ ds_out.message = IF StartsWith(ds_spec, "mkeventd_")
                            THEN "event_console_disabled"
                            ELSE "datasource_does_not_exist"

\* the datasource of a view was read, its name is unknown and does not start
\* with "mkeventd_": the access ended with the interpreter's RuntimeError
C11_Witness ==
    /\ ds_out.result = "raised"
    /\ ds_spec \notin ds_registry
    /\ ~StartsWith(ds_spec, "mkeventd_")
    /\ ds_registry # {}
    /\ ds_out.exc = "RuntimeError"

(***************************************************************************)
(* Claims about show_view                                                  *)
(***************************************************************************)
\* show_view made the call named c
C12_Called(c) == \E i \in 1..Len(show_out.calls) : show_out.calls[i] = c

\* only_count is set, or the view has no truthy mustsearch, or filled_in is
\* one of filter, actions, confirm, painteroptions
C12_MayFetch ==
    \/ show_in.only_count
    \/ show_in.mustsearch \in {None, Some(FALSE)}
    \/ \E v \in {"filter", "actions", "confirm", "painteroptions"} :
           show_in.filled_in = Some(v)

\* without a fetch there is no join, inventory load or sort, the row list
\* is empty and the unfiltered row count is 0
C12_NothingFetched ==
    /\ ~C12_Called("query") /\ ~C12_Called("join")
    /\ ~C12_Called("inventory") /\ ~C12_Called("sort")
    /\ show_out.rows = Some(<<>>)
    /\ show_out.unfiltered = Some(0)

\* C12 as stated: show_view queries the datasource table if and only if
\* only_count is set, or the view has no truthy mustsearch, or filled_in is
\* one of filter, actions, confirm, painteroptions; otherwise nothing is
\* fetched, the row list is empty and the unfiltered row count is 0.
C12_QueriesIffMayFetch ==
    show_out.ended # "pending" =>
        /\ C12_Called("query") <=> C12_MayFetch
        /\ ~C12_MayFetch => C12_NothingFetched

\* C12, amended: unless show_view forks to the availability page (mode is
\* availability and the datasource has no "aggr" info or timeline_aggr is
\* set), it queries the datasource table if and only if only_count is set,
\* or the view has no truthy mustsearch, or filled_in is one of filter,
\* actions, confirm, painteroptions, and otherwise nothing is fetched, the
\* row list is empty and the unfiltered row count is 0; when it forks, it
\* never queries the datasource table.
C12_QueriesIffMayFetchUnlessAvailabilityPage ==
    /\ show_out.ended \notin {"pending", "availability_page"} =>
           /\ C12_Called("query") <=> C12_MayFetch
           /\ ~C12_MayFetch => C12_NothingFetched
    /\ show_out.ended = "availability_page" =>
           /\ show_in.mode = Some("availability")
           /\ ~show_in.aggr_in_infos \/ show_in.timeline_aggr
           /\ ~C12_Called("query") /\ ~C12_Called("sort")
           /\ show_out.rows = None

\* a mustsearch view was shown before a search was submitted, although the
\* table has rows: nothing was queried and the renderer got no rows
C12_Witness ==
    /\ show_out.ended = "rendered"
    /\ show_in.mustsearch = Some(TRUE)
    /\ show_in.filled_in = Some("search")
    /\ ~show_in.only_count
    /\ show_in.has_join_cells /\ show_in.inventory_needed
    /\ show_in.sorters # <<>>
    /\ Len(show_in.table_rows) = MaxShowRows
    /\ show_out.calls = <<"view_renderer.render">>
    /\ show_out.render_args = Some([rows |-> <<>>, unfiltered_amount_of_rows |-> 0])

(***************************************************************************)
(* Claims about GUIViewRenderer.render                                     *)
(***************************************************************************)
\* view.row_limit as the renderer reads it
C13_RowLimit == View_row_limit(render_in.ignore_limit, render_in._row_limit)

\* display option W is enabled and the row limit is reported as exceeded
\* for the unfiltered row count
C13_LimitApplies ==
    /\ render_in.W
    /\ row_limit_exceeded(Len(render_in.rows) + render_in.extra_unfiltered,
                          C13_RowLimit)

\* C13: render hands rows to layout.render exactly when no actions were
\* done.  When display option W is enabled and the row limit is reported as
\* exceeded for the unfiltered row count, the layout gets at most
\* view.row_limit rows: the first row_limit rows of the list to display, in
\* its order; otherwise the layout gets that list untruncated.  The list to
\* display is the row list render was given unless an action is in progress
\* (html.do_actions()), when it is the affected rows of that list.
C13_LayoutRowsLimited ==
    render_out.state = "done" =>
        LET shown == render_out.display_rows
        IN  /\ (render_out.layout_rows # None) <=> ~render_out.has_done_actions
            /\ ~render_in.do_actions => shown = render_in.rows
            /\ (render_out.layout_rows # None /\ C13_LimitApplies) =>
                   LET limit == C13_RowLimit[1]
                       layout_rows == render_out.layout_rows[1]
                   IN  /\ Len(layout_rows) <= limit
                       /\ Len(layout_rows) = IF Len(shown) < limit THEN Len(shown)
                                             ELSE limit
                       /\ \A i \in 1..Len(layout_rows) : layout_rows[i] = shown[i]
            /\ (render_out.layout_rows # None /\ ~C13_LimitApplies) =>
                   render_out.layout_rows[1] = shown

\* three rows were rendered with W enabled and a row limit of 2, no action
\* in progress: the layout got the first two rows
C13_Witness ==
    /\ render_out.state = "done"
    /\ render_in.W /\ ~render_in.do_actions /\ ~render_in.ignore_limit
    /\ render_in._row_limit = Some(2)
    /\ render_in.rows = <<2, 1, 2>>
    /\ render_out.warned
    /\ render_out.layout_rows = Some(<<2, 1>>)

(***************************************************************************)
(* Claims about _do_table_join                                             *)
(***************************************************************************)
\* the positions of the join query's rows with the master key of `master`
C14_RowsOf(master) ==
    {j \in 1..Len(join_query_rows) : MasterKey(join_query_rows[j]) = MasterKey(master)}

\* the master row at position i, before and after the call
C14_Joined(i, entries) ==
    /\ DOMAIN join_rows_after[i] = DOMAIN join_master_rows[i] \cup {"JOIN"}
    /\ \A c \in DOMAIN join_master_rows[i] :
           join_rows_after[i][c] = join_master_rows[i][c]
    /\ join_rows_after[i].JOIN = entries

\* C14 as stated: after the call every master row has a "JOIN" dict that
\* contains, for every row the join query returned with the same (site,
\* join master column) value, an entry keyed by that row's join key column
\* and holding that row, in whatever order the join query returned its rows;
\* master rows without any such row get an empty dict.
C14_JoinHoldsEveryRow ==
    join_done =>
        /\ Len(join_rows_after) = Len(join_master_rows)
        /\ \A i \in 1..Len(join_master_rows) :
               LET JOIN == join_rows_after[i].JOIN
                   mine == C14_RowsOf(join_master_rows[i])
               IN  /\ "JOIN" \in DOMAIN join_rows_after[i]
                   /\ \A j \in mine :
                          /\ join_query_rows[j].service_description \in DOMAIN JOIN
                          /\ JOIN[join_query_rows[j].service_description]
                                 = join_query_rows[j]
                   /\ mine = {} => JOIN = <<>>

\* the last unbroken run of the join query's rows with the master key of
\* `master`: the positions from which on, up to the last such row, every row
\* has that key
C14_LastRun(master) ==
    LET mine == C14_RowsOf(master)
    IN  {j \in mine : \A k \in j..Len(join_query_rows) :
                          (\E l \in mine : l >= k) => k \in mine}

\* C14, amended: after the call every master row is unchanged but for its
\* "JOIN" dict, which has one entry per row of the last unbroken run of
\* join query rows with the same (site, join master column) value, keyed by
\* the row's join key column and holding that row; rows of that value that
\* the query returned before a row of another master key are dropped.
\* Master rows without any such row get an empty dict.
C14_JoinHoldsLastRun ==
    join_done =>
        /\ Len(join_rows_after) = Len(join_master_rows)
        /\ \A i \in 1..Len(join_master_rows) :
               LET run == C14_LastRun(join_master_rows[i])
                   keys == {join_query_rows[j].service_description : j \in run}
                   at(key) ==
                       CHOOSE j \in run : join_query_rows[j].service_description = key
               IN  C14_Joined(i, [key \in keys |-> join_query_rows[at(key)]])

\* two master rows were joined; the join query returned the two rows of the
\* first one's host next to each other and a row of a third host: the first
\* master row got both entries, the second an empty dict
C14_Witness ==
    /\ join_done
    /\ Len(join_master_rows) = 2
    /\ Len(join_query_rows) = 3
    /\ \A j \in 1..2 : MasterKey(join_query_rows[j]) = MasterKey(join_master_rows[1])
    /\ \A i \in 1..2 : MasterKey(join_query_rows[3]) # MasterKey(join_master_rows[i])
    /\ MasterKey(join_master_rows[2]) # MasterKey(join_master_rows[1])
    /\ DOMAIN join_rows_after[1].JOIN = JoinKeys
    /\ \A j \in 1..2 :
           join_rows_after[1].JOIN[join_query_rows[j].service_description]
               = join_query_rows[j]
    /\ join_rows_after[2].JOIN = <<>>

=============================================================================
